---- MODULE Spec2Model ----
(***************************************************************************)
(* DistinctBlockInputStream (dbms/src/DataStreams): a pull-based DISTINCT  *)
(* operator.  readImpl pulls blocks from its child stream, inserts the key *)
(* of every row into a set that lives as long as the stream, and returns   *)
(* the block compacted to the rows whose key was new.                      *)
(***************************************************************************)
EXTENDS Integers, Sequences, FiniteSets, TLC

\* ------------------------------------------------------------------ bounds
MaxVal == 2        \* cell values are 1..MaxVal
MaxRows == 2       \* rows of one upstream block
MaxBlocks == 2     \* blocks the upstream delivers before it must end
MaxPulls == 3      \* calls of readImpl the caller makes
MaxLimit == 2      \* largest configured limit_hint / max_rows

Val == 1..MaxVal

\* ------------------------------------------------------- blocks and columns
\* A column is plain (one value per row) or constant (one value broadcast to
\* every row); data is the column read row by row.
PlainColumns(name, n) ==
    {[name |-> name, isConst |-> FALSE, data |-> d] : d \in [1..n -> Val]}

\* Constant columns of the upstream all broadcast the same value.
ConstVal == {1}

ConstColumns(name, n) ==
    {[name |-> name, isConst |-> TRUE, data |-> [i \in 1..n |-> v]] : v \in ConstVal}

ColumnsOf(name, n) == PlainColumns(name, n) \cup ConstColumns(name, n)

\* The blocks the upstream can deliver: two columns "a" and "b" of equal
\* length, 0..MaxRows rows.
Blocks ==
    UNION {{[columns |-> <<ca, cb>>] : ca \in ColumnsOf("a", n), cb \in ColumnsOf("b", n)}
           : n \in 0..MaxRows}

\* Block(): the block with no columns, which converts to false.
EmptyBlock == [columns |-> <<>>]

\* Block::rows
Rows(block) == IF block.columns = <<>> THEN 0 ELSE Len(block.columns[1].data)

\* Block::getByName
GetByName(block, name) ==
    block.columns[CHOOSE i \in 1..Len(block.columns) : block.columns[i].name = name]

\* Row i of a block, over all its columns.
RowAt(block, i) == [c \in 1..Len(block.columns) |-> block.columns[c].data[i]]

\* The rows of a block in order.
RowsOf(block) == [i \in 1..Rows(block) |-> RowAt(block, i)]

\* ---------------------------------------------------------- configuration
\* Valid configurations: the overflow mode is THROW or BREAK.
KeyConfigs == {<<>>, <<"a">>, <<"a", "b">>}
OverflowModes == {"THROW", "BREAK"}
ByteLimits == {0, 3}

VARIABLES
    columns_names,   \* configured key column names (empty: all columns)
    limit_hint,      \* row-count hint, 0 = disabled
    max_rows,        \* limits.max_rows_in_distinct, 0 = unlimited
    max_bytes,       \* limits.max_bytes_in_distinct, 0 = unlimited
    overflow_mode,   \* limits.distinct_overflow_mode
    data,            \* SetVariants: method variant, stored keys, byte count
    pc,              \* "idle" | "loop" (inside readImpl) | "failed"
    source_done,     \* the upstream has signalled end-of-data
    input,           \* history: blocks read from the upstream, in order
    output,          \* history: outcome of every finished pull, in order
    pull_start,      \* history: data at the start of the current/last pull
    file             \* a ReadBufferFromFile and the descriptor under it

vars == <<columns_names, limit_hint, max_rows, max_bytes, overflow_mode,
          data, pc, source_done, input, output, pull_start, file>>

stream == <<columns_names, limit_hint, max_rows, max_bytes, overflow_mode,
            data, pc, source_done, input, output, pull_start>>

config == <<columns_names, limit_hint, max_rows, max_bytes, overflow_mode>>

\* ------------------------------------------------------------ SetVariants
\* The set before the first keyed block: no method chosen, nothing stored.
EmptyVariants == [type |-> "EMPTY", keys |-> {}, bytes |-> 0]

\* SetVariants::empty
IsEmpty(variants) == variants.type = "EMPTY"

\* SetVariants::getTotalRowCount
getTotalRowCount(variants) == Cardinality(variants.keys)

\* SetVariants::getTotalByteCount
getTotalByteCount(variants) == variants.bytes

\* SetVariants::chooseMethod: one fixed-width key column or a composite key.
chooseMethod(columns) == IF Len(columns) = 1 THEN "key64" ELSE "keys128"

\* SetVariants::init
init(variants, type) == [variants EXCEPT !.type = type]

\* Method::State::getKey: the key of row i, the values of the key columns there.
getKey(columns, i) == [c \in 1..Len(columns) |-> columns[c].data[i]]

\* Bytes retained for one stored key: one unit per key column value.
KeyBytes(key) == Len(key)

\* ----------------------------------------------------------- getKeyColumns
\* KeyColumnsFrom taking the i-th column of the block, names given or not.
RECURSIVE KeyColumnsFrom_ByPosition(_, _, _)
KeyColumnsFrom_ByPosition(names, block, i) ==
    LET columns == IF names = <<>> THEN Len(block.columns) ELSE Len(names)
    IN  IF i > columns
        THEN <<>>
        ELSE LET column == block.columns[i]
             IN  (IF ~column.isConst THEN <<column>> ELSE <<>>)
                     \o KeyColumnsFrom_ByPosition(names, block, i + 1)

RECURSIVE KeyColumnsFrom(_, _, _)
KeyColumnsFrom(names, block, i) ==
    LET columns == IF names = <<>> THEN Len(block.columns) ELSE Len(names)
    IN  IF i > columns
        THEN <<>>
        ELSE LET column == IF names = <<>> THEN block.columns[i]
                                           ELSE GetByName(block, names[i])
             IN  (IF ~column.isConst THEN <<column>> ELSE <<>>)
                     \o KeyColumnsFrom(names, block, i + 1)

getKeyColumns(names, block) == KeyColumnsFrom(names, block, 1)

\* ------------------------------------------------------------- buildFilter
\* InsertRow with the lookup lost: every row counts as inserted.
InsertRow_EveryRowNew(variants, columns, filter, i) ==
    LET key == getKey(columns, i)
    IN  [variants |-> [variants EXCEPT !.keys = @ \cup {key},
                                       !.bytes = @ + KeyBytes(key)],
         filter |-> [filter EXCEPT ![i] = TRUE]]

\* InsertRow keeping only the key inserted last.
InsertRow_Overwrites(variants, columns, filter, i) ==
    LET key == getKey(columns, i)
        inserted == key \notin variants.keys
    IN  [variants |-> IF inserted
                      THEN [variants EXCEPT !.keys = {key},
                                            !.bytes = KeyBytes(key)]
                      ELSE variants,
         filter |-> [filter EXCEPT ![i] = inserted]]

\* One row of the insertion pass: emplace the key, and on a new key account
\* for it; filter[i] = inserted.
InsertRow(variants, columns, filter, i) ==
    LET key == getKey(columns, i)
        inserted == key \notin variants.keys
    IN  [variants |-> IF inserted
                      THEN [variants EXCEPT !.keys = @ \cup {key},
                                            !.bytes = @ + KeyBytes(key)]
                      ELSE variants,
         filter |-> [filter EXCEPT ![i] = inserted]]

\* BuildFilterFrom walking the rows from the last one to the first.
RECURSIVE BuildFilterFrom_Backwards(_, _, _, _, _)
BuildFilterFrom_Backwards(variants, columns, filter, rows, i) ==
    IF i > rows
    THEN [variants |-> variants, filter |-> filter]
    ELSE LET r == InsertRow(variants, columns, filter, rows + 1 - i)
         IN  BuildFilterFrom_Backwards(r.variants, columns, r.filter, rows, i + 1)

RECURSIVE BuildFilterFrom(_, _, _, _, _)
BuildFilterFrom(variants, columns, filter, rows, i) ==
    IF i > rows
    THEN [variants |-> variants, filter |-> filter]
    ELSE LET r == InsertRow(variants, columns, filter, i)
         IN  BuildFilterFrom(r.variants, columns, r.filter, rows, i + 1)

\* buildFilter starting its loop one row late.
buildFilter_SkipsFirstRow(variants, columns, rows) ==
    BuildFilterFrom(variants, columns, [i \in 1..rows |-> FALSE], rows, 2)

buildFilter(variants, columns, rows) ==
    BuildFilterFrom(variants, columns, [i \in 1..rows |-> FALSE], rows, 1)

\* ------------------------------------------------------------- checkLimits
\* checkLimits letting the row count pass the limit by one.
checkLimits_OffByOne(variants, maxRows, maxBytes) ==
    IF maxRows # 0 /\ getTotalRowCount(variants) > maxRows + 1 THEN FALSE
    ELSE IF maxBytes # 0 /\ getTotalByteCount(variants) > maxBytes THEN FALSE
    ELSE TRUE

\* checkLimits taking a limit of 0 for a limit like any other.
checkLimits_ZeroIsALimit(variants, maxRows, maxBytes) ==
    IF getTotalRowCount(variants) > maxRows THEN FALSE
    ELSE IF getTotalByteCount(variants) > maxBytes THEN FALSE
    ELSE TRUE

checkLimits(variants, maxRows, maxBytes) ==
    IF maxRows # 0 /\ getTotalRowCount(variants) > maxRows THEN FALSE
    ELSE IF maxBytes # 0 /\ getTotalByteCount(variants) > maxBytes THEN FALSE
    ELSE TRUE

\* ---------------------------------------------------------- IColumn::filter
RECURSIVE SelectFrom(_, _, _)
SelectFrom(seq, filter, i) ==
    IF i > Len(seq) THEN <<>>
    ELSE (IF filter[i] THEN <<seq[i]>> ELSE <<>>) \o SelectFrom(seq, filter, i + 1)

FilterColumn(column, filter) == [column EXCEPT !.data = SelectFrom(@, filter, 1)]

\* FilterBlock with the loop over the columns ending after the first one.
FilterBlock_FirstColumnOnly(block, filter) ==
    [columns |-> [c \in 1..Len(block.columns) |->
                     IF c = 1 THEN FilterColumn(block.columns[c], filter)
                     ELSE block.columns[c]]]

\* block.safeGetByPosition(i).column = ...->filter(filter, -1), every column
FilterBlock(block, filter) ==
    [columns |-> [c \in 1..Len(block.columns) |-> FilterColumn(block.columns[c], filter)]]

\* ------------------------------------------------------- readImpl, one turn
\* HintReached stopping only once the count is past the hint.
HintReached_Past(variants, hint) == hint # 0 /\ getTotalRowCount(variants) > hint

\* "Stop reading if we already reach the limit."
\* HintReached comparing the hint with the byte count of the set.
HintReached_OnBytes(variants, hint) ==
    hint # 0 /\ getTotalByteCount(variants) >= hint

HintReached(variants, hint) == hint # 0 /\ getTotalRowCount(variants) >= hint

\* Iteration checking the limits on the set as it was before the insertion pass.
Iteration_LimitsBeforeInsert(names, maxRows, maxBytes, mode, variants, block) ==
    LET column_ptrs == getKeyColumns(names, block)
    IN  IF column_ptrs = <<>>
        THEN [kind |-> "unfiltered", variants |-> variants, block |-> block]
        ELSE LET chosen == IF IsEmpty(variants)
                           THEN init(variants, chooseMethod(column_ptrs))
                           ELSE variants
                 old_set_size == getTotalRowCount(chosen)
                 rows == Rows(block)
                 built == buildFilter(chosen, column_ptrs, rows)
             IN  IF getTotalRowCount(built.variants) = old_set_size
                 THEN [kind |-> "continue", variants |-> built.variants,
                       block |-> EmptyBlock]
                 ELSE IF ~checkLimits(chosen, maxRows, maxBytes)
                 THEN [kind |-> CASE mode = "THROW" -> "throw"
                                  [] mode = "BREAK" -> "break"
                                  [] OTHER -> "logical_error",
                       variants |-> built.variants, block |-> EmptyBlock]
                 ELSE [kind |-> "filtered", variants |-> built.variants,
                       block |-> FilterBlock(block, built.filter)]

\* Iteration without the test for a block that brought no new record.
Iteration_NoSkip(names, maxRows, maxBytes, mode, variants, block) ==
    LET column_ptrs == getKeyColumns(names, block)
    IN  IF column_ptrs = <<>>
        THEN [kind |-> "unfiltered", variants |-> variants, block |-> block]
        ELSE LET chosen == IF IsEmpty(variants)
                           THEN init(variants, chooseMethod(column_ptrs))
                           ELSE variants
                 rows == Rows(block)
                 built == buildFilter(chosen, column_ptrs, rows)
             IN  IF ~checkLimits(built.variants, maxRows, maxBytes)
                 THEN [kind |-> CASE mode = "THROW" -> "throw"
                                  [] mode = "BREAK" -> "break"
                                  [] OTHER -> "logical_error",
                       variants |-> built.variants, block |-> EmptyBlock]
                 ELSE [kind |-> "filtered", variants |-> built.variants,
                       block |-> FilterBlock(block, built.filter)]

\* Iteration choosing the method before it looks whether there is a key column.
Iteration_InitFirst(names, maxRows, maxBytes, mode, variants, block) ==
    LET column_ptrs == getKeyColumns(names, block)
        chosen == IF IsEmpty(variants)
                  THEN init(variants, chooseMethod(column_ptrs))
                  ELSE variants
    IN  IF column_ptrs = <<>>
        THEN [kind |-> "unfiltered", variants |-> chosen, block |-> block]
        ELSE LET old_set_size == getTotalRowCount(chosen)
                 rows == Rows(block)
                 built == buildFilter(chosen, column_ptrs, rows)
             IN  IF getTotalRowCount(built.variants) = old_set_size
                 THEN [kind |-> "continue", variants |-> built.variants,
                       block |-> EmptyBlock]
                 ELSE IF ~checkLimits(built.variants, maxRows, maxBytes)
                 THEN [kind |-> CASE mode = "THROW" -> "throw"
                                  [] mode = "BREAK" -> "break"
                                  [] OTHER -> "logical_error",
                       variants |-> built.variants, block |-> EmptyBlock]
                 ELSE [kind |-> "filtered", variants |-> built.variants,
                       block |-> FilterBlock(block, built.filter)]

\* Iteration choosing the method on every block that has a key column.
Iteration_AlwaysInit(names, maxRows, maxBytes, mode, variants, block) ==
    LET column_ptrs == getKeyColumns(names, block)
    IN  IF column_ptrs = <<>>
        THEN [kind |-> "unfiltered", variants |-> variants, block |-> block]
        ELSE LET chosen == init(variants, chooseMethod(column_ptrs))
                 old_set_size == getTotalRowCount(chosen)
                 rows == Rows(block)
                 built == buildFilter(chosen, column_ptrs, rows)
             IN  IF getTotalRowCount(built.variants) = old_set_size
                 THEN [kind |-> "continue", variants |-> built.variants,
                       block |-> EmptyBlock]
                 ELSE IF ~checkLimits(built.variants, maxRows, maxBytes)
                 THEN [kind |-> CASE mode = "THROW" -> "throw"
                                  [] mode = "BREAK" -> "break"
                                  [] OTHER -> "logical_error",
                       variants |-> built.variants, block |-> EmptyBlock]
                 ELSE [kind |-> "filtered", variants |-> built.variants,
                       block |-> FilterBlock(block, built.filter)]

\* Iteration taking old_set_size after the insertion pass instead of before it.
Iteration_OldSizeAfterInsert(names, maxRows, maxBytes, mode, variants, block) ==
    LET column_ptrs == getKeyColumns(names, block)
    IN  IF column_ptrs = <<>>
        THEN [kind |-> "unfiltered", variants |-> variants, block |-> block]
        ELSE LET chosen == IF IsEmpty(variants)
                           THEN init(variants, chooseMethod(column_ptrs))
                           ELSE variants
                 rows == Rows(block)
                 built == buildFilter(chosen, column_ptrs, rows)
                 old_set_size == getTotalRowCount(built.variants)
             IN  IF getTotalRowCount(built.variants) = old_set_size
                 THEN [kind |-> "continue", variants |-> built.variants,
                       block |-> EmptyBlock]
                 ELSE IF ~checkLimits(built.variants, maxRows, maxBytes)
                 THEN [kind |-> CASE mode = "THROW" -> "throw"
                                  [] mode = "BREAK" -> "break"
                                  [] OTHER -> "logical_error",
                       variants |-> built.variants, block |-> EmptyBlock]
                 ELSE [kind |-> "filtered", variants |-> built.variants,
                       block |-> FilterBlock(block, built.filter)]

\* Iteration giving back the set as it was when the block breaks a limit.
Iteration_RollbackOnLimit(names, maxRows, maxBytes, mode, variants, block) ==
    LET column_ptrs == getKeyColumns(names, block)
    IN  IF column_ptrs = <<>>
        THEN [kind |-> "unfiltered", variants |-> variants, block |-> block]
        ELSE LET chosen == IF IsEmpty(variants)
                           THEN init(variants, chooseMethod(column_ptrs))
                           ELSE variants
                 old_set_size == getTotalRowCount(chosen)
                 rows == Rows(block)
                 built == buildFilter(chosen, column_ptrs, rows)
             IN  IF getTotalRowCount(built.variants) = old_set_size
                 THEN [kind |-> "continue", variants |-> built.variants,
                       block |-> EmptyBlock]
                 ELSE IF ~checkLimits(built.variants, maxRows, maxBytes)
                 THEN [kind |-> CASE mode = "THROW" -> "throw"
                                  [] mode = "BREAK" -> "break"
                                  [] OTHER -> "logical_error",
                       variants |-> chosen, block |-> EmptyBlock]
                 ELSE [kind |-> "filtered", variants |-> built.variants,
                       block |-> FilterBlock(block, built.filter)]

\* Iteration with the skip test inverted: it goes on when the set grew.
Iteration_SkipInverted(names, maxRows, maxBytes, mode, variants, block) ==
    LET column_ptrs == getKeyColumns(names, block)
    IN  IF column_ptrs = <<>>
        THEN [kind |-> "unfiltered", variants |-> variants, block |-> block]
        ELSE LET chosen == IF IsEmpty(variants)
                           THEN init(variants, chooseMethod(column_ptrs))
                           ELSE variants
                 old_set_size == getTotalRowCount(chosen)
                 rows == Rows(block)
                 built == buildFilter(chosen, column_ptrs, rows)
             IN  IF getTotalRowCount(built.variants) # old_set_size
                 THEN [kind |-> "continue", variants |-> built.variants,
                       block |-> EmptyBlock]
                 ELSE IF ~checkLimits(built.variants, maxRows, maxBytes)
                 THEN [kind |-> CASE mode = "THROW" -> "throw"
                                  [] mode = "BREAK" -> "break"
                                  [] OTHER -> "logical_error",
                       variants |-> built.variants, block |-> EmptyBlock]
                 ELSE [kind |-> "filtered", variants |-> built.variants,
                       block |-> FilterBlock(block, built.filter)]

\* The body of readImpl's loop for a block the upstream delivered: what the
\* turn does to the set and how it leaves the loop.
\*   "unfiltered": return block          (no key column)
\*   "continue":   go to the next block  (no new record)
\*   "throw" / "break" / "logical_error": checkLimits failed
\*   "filtered":   return the block compacted by the filter
Iteration(names, maxRows, maxBytes, mode, variants, block) ==
    LET column_ptrs == getKeyColumns(names, block)
    IN  IF column_ptrs = <<>>
        THEN [kind |-> "unfiltered", variants |-> variants, block |-> block]
        ELSE LET chosen == IF IsEmpty(variants)
                           THEN init(variants, chooseMethod(column_ptrs))
                           ELSE variants
                 old_set_size == getTotalRowCount(chosen)
                 rows == Rows(block)
                 built == buildFilter(chosen, column_ptrs, rows)
             IN  IF getTotalRowCount(built.variants) = old_set_size
                 THEN [kind |-> "continue", variants |-> built.variants,
                       block |-> EmptyBlock]
                 ELSE IF ~checkLimits(built.variants, maxRows, maxBytes)
                 THEN [kind |-> CASE mode = "THROW" -> "throw"
                                  [] mode = "BREAK" -> "break"
                                  [] OTHER -> "logical_error",
                       variants |-> built.variants, block |-> EmptyBlock]
                 ELSE [kind |-> "filtered", variants |-> built.variants,
                       block |-> FilterBlock(block, built.filter)]

\* ----------------------------------------------------------------- outcomes
\* An outcome is what one call of readImpl gave its caller: kind and block (or
\* error); via names the statement that ended the call.
\* consumed counts the upstream blocks read so far.
NoError == [code |-> "NONE", rows |-> 0, row_limit |-> 0, bytes |-> 0, byte_limit |-> 0]

\* return block
Returned(block, via, consumed) ==
    [kind |-> "block", block |-> block, via |-> via, error |-> NoError,
     consumed |-> consumed]

\* return Block()
EndOfData(via, consumed) ==
    [kind |-> "eof", block |-> EmptyBlock, via |-> via, error |-> NoError,
     consumed |-> consumed]

\* throw Exception(...)
Thrown(code, variants, maxRows, maxBytes, consumed) ==
    [kind |-> "exception", block |-> EmptyBlock, via |-> "throw",
     error |-> [code |-> code,
                rows |-> getTotalRowCount(variants), row_limit |-> maxRows,
                bytes |-> getTotalByteCount(variants), byte_limit |-> maxBytes],
     consumed |-> consumed]

\* an exception of children[0]->read(), passed on as it is
UpstreamError(consumed) ==
    [kind |-> "exception", block |-> EmptyBlock, via |-> "upstream",
     error |-> [NoError EXCEPT !.code = "UPSTREAM"], consumed |-> consumed]

\* ------------------------------------------------------ ReadBufferFromFile
MaxFd == 2
MaxCloses == 2

\* Descriptor numbers the system hands out or a caller passes in.
Fds == 0..MaxFd

\* errno values of a failed open(2): the file is not there, or anything else.
Errnos == {"ENOENT", "EACCES"}

\* No object yet. apple: the build has __APPLE__ defined.
\*   pc         "none" | "alive" | "ctor_failed" (the constructor threw)
\*              | "destroyed"
\*   fd         the member fd
\*   descriptor the descriptor number the object was given by open(2) or by
\*              its caller, -1 if none
\*   os         that number in the system: "none" (not open) | "open" (the
\*              object's file) | "released" (closed, the number is free)
\*              | "reused" (handed out again, to another file of the process)
\*   calls      history: every ::close issued: its argument, its result, its
\*              caller, what the number was in the system when it was
\*              issued, and the member fd and the exception when the
\*              operation that issued it ended
\*   error      the exception the last operation threw, "NONE" if it returned
\*   cause      what made the constructor throw: an errno of open(2), "fcntl"
\*   closes     number of calls of close()
NoFile(apple) ==
    [apple |-> apple, pc |-> "none", fd |-> -1, descriptor |-> -1, os |-> "none",
     calls |-> <<>>, error |-> "NONE", cause |-> "NONE", closes |-> 0]

\* ::close(arg): what it returns and what becomes of the number. It fails on
\* a number that is not an open descriptor. On an open one, the object's file
\* or, once the number was handed out again, another file, it returns 0 and
\* releases it, or fails, and then the descriptor is released or is not.
SysClose(os, arg) ==
    IF arg < 0 \/ os \in {"none", "released"}
    THEN {[ok |-> FALSE, os |-> os]}
    ELSE {[ok |-> TRUE, os |-> "released"],
          [ok |-> FALSE, os |-> "released"],
          [ok |-> FALSE, os |-> os]}

\* One ::close as the history keeps it.
CloseCall(f, outcome, by, fd_after, threw) ==
    [arg |-> f.fd, ok |-> outcome.ok, by |-> by, os_before |-> f.os,
     fd_after |-> fd_after, threw |-> threw]

\* ReadBufferFromFile(file_name, ...) when open(2) returns fd, and on an
\* __APPLE__ build with O_DIRECT asked for, fcntl(F_NOCACHE) succeeds too.
OpenedByName(f, fd) ==
    [f EXCEPT !.pc = "alive", !.fd = fd, !.descriptor = fd, !.os = "open"]

\* ReadBufferFromFile(file_name, ...) when open(2) returns -1.
OpenFailed(f, errno) ==
    [f EXCEPT !.pc = "ctor_failed", !.fd = -1, !.cause = errno,
              !.error = IF errno = "ENOENT" THEN "FILE_DOESNT_EXIST"
                                            ELSE "CANNOT_OPEN_FILE"]

\* ReadBufferFromFile(file_name, ...) on an __APPLE__ build when open(2)
\* returned fd and fcntl(fd, F_NOCACHE, 1) returns -1: it throws with the
\* descriptor open, and the destructor of an object whose constructor threw
\* does not run.
NoCacheFailed(f, fd) ==
    [f EXCEPT !.pc = "ctor_failed", !.fd = fd, !.descriptor = fd, !.os = "open",
              !.cause = "fcntl", !.error = "CANNOT_OPEN_FILE"]

\* ReadBufferFromFile(fd, ...): the number is taken as it is.
FromDescriptor(f, fd, isOpen) ==
    [f EXCEPT !.pc = "alive", !.fd = fd, !.descriptor = fd,
              !.os = IF isOpen /\ fd >= 0 THEN "open" ELSE "none"]

\* close(): if (0 != ::close(fd)) throw ...; fd = -1;
close(f, outcome) ==
    LET fd_after == IF outcome.ok THEN -1 ELSE f.fd
        threw == IF outcome.ok THEN "NONE" ELSE "CANNOT_CLOSE_FILE"
    IN  [f EXCEPT !.calls = Append(@, CloseCall(f, outcome, "close", fd_after, threw)),
                  !.os = outcome.os,
                  !.closes = @ + 1,
                  !.fd = fd_after,
                  !.error = threw]

\* ~ReadBufferFromFile(): if (fd < 0) return; ::close(fd); the result of
\* ::close is dropped.
Destructor(f, outcome) ==
    IF f.fd < 0
    THEN [f EXCEPT !.pc = "destroyed", !.error = "NONE"]
    ELSE [f EXCEPT !.pc = "destroyed", !.error = "NONE",
                   !.calls = Append(@, CloseCall(f, outcome, "destructor", f.fd, "NONE")),
                   !.os = outcome.os]

\* ------------------------------------------------------------------ actions
Init ==
    /\ columns_names \in KeyConfigs
    /\ limit_hint \in 0..MaxLimit
    /\ max_rows \in 0..MaxLimit
    /\ max_bytes \in ByteLimits
    /\ overflow_mode \in OverflowModes
    /\ data = EmptyVariants
    /\ pc = "idle"
    /\ source_done = FALSE
    /\ input = <<>>
    /\ output = <<>>
    /\ pull_start = EmptyVariants
    /\ file = NoFile(FALSE)

\* The upstream has a block to deliver to this read.
Delivers ==
    /\ pc = "loop"
    /\ ~HintReached(data, limit_hint)
    /\ ~source_done
    /\ Len(input) < MaxBlocks

\* The caller calls readImpl.
Pull ==
    /\ pc = "idle"
    /\ Len(output) < MaxPulls
    /\ pc' = "loop"
    /\ pull_start' = data
    /\ UNCHANGED <<config, data, source_done, input, output, file>>

\* if (limit_hint && data.getTotalRowCount() >= limit_hint) return Block();
StopAtHint ==
    /\ pc = "loop"
    /\ HintReached(data, limit_hint)
    /\ output' = Append(output, EndOfData("hint", Len(input)))
    /\ pc' = "idle"
    /\ UNCHANGED <<config, data, source_done, input, pull_start, file>>

\* children[0]->read() returns Block(): if (!block) return Block();
SourceEnds ==
    /\ pc = "loop"
    /\ ~HintReached(data, limit_hint)
    /\ source_done' = TRUE
    /\ output' = Append(output, EndOfData("source", Len(input)))
    /\ pc' = "idle"
    /\ UNCHANGED <<config, data, input, pull_start, file>>

\* children[0]->read() throws.
SourceThrows ==
    /\ pc = "loop"
    /\ ~HintReached(data, limit_hint)
    /\ ~source_done
    /\ output' = Append(output, UpstreamError(Len(input)))
    /\ pc' = "failed"
    /\ UNCHANGED <<config, data, source_done, input, pull_start, file>>

\* The loop body on a delivered block (readImpl lines 42-93).
Turn(block) == Iteration(columns_names, max_rows, max_bytes, overflow_mode, data, block)

\* What every turn on a delivered block does besides leaving the loop.
Consume(block, turn) ==
    /\ input' = Append(input, block)
    /\ data' = turn.variants
    /\ UNCHANGED <<config, source_done, pull_start, file>>

\* if (column_ptrs.empty()) return block;
ReturnUnfiltered(block) ==
    /\ Delivers
    /\ LET turn == Turn(block)
       IN  /\ turn.kind = "unfiltered"
           /\ Consume(block, turn)
           /\ output' = Append(output, Returned(turn.block, "unfiltered", Len(input) + 1))
           /\ pc' = "idle"

\* if (data.getTotalRowCount() == old_set_size) continue;
NextBlock(block) ==
    /\ Delivers
    /\ LET turn == Turn(block)
       IN  /\ turn.kind = "continue"
           /\ Consume(block, turn)
           /\ UNCHANGED <<pc, output>>

\* case OverflowMode::THROW
ThrowLimit(block) ==
    /\ Delivers
    /\ LET turn == Turn(block)
       IN  /\ turn.kind = "throw"
           /\ Consume(block, turn)
           /\ output' = Append(output, Thrown("SET_SIZE_LIMIT_EXCEEDED", turn.variants,
                                              max_rows, max_bytes, Len(input) + 1))
           /\ pc' = "failed"

\* case OverflowMode::BREAK
BreakLimit(block) ==
    /\ Delivers
    /\ LET turn == Turn(block)
       IN  /\ turn.kind = "break"
           /\ Consume(block, turn)
           /\ output' = Append(output, EndOfData("break", Len(input) + 1))
           /\ pc' = "idle"

\* filter every column; return block;
ReturnFiltered(block) ==
    /\ Delivers
    /\ LET turn == Turn(block)
       IN  /\ turn.kind = "filtered"
           /\ Consume(block, turn)
           /\ output' = Append(output, Returned(turn.block, "filtered", Len(input) + 1))
           /\ pc' = "idle"

Next ==
    \/ Pull
    \/ StopAtHint
    \/ SourceEnds
    \/ SourceThrows
    \/ \E block \in Blocks : ReturnUnfiltered(block)
    \/ \E block \in Blocks : NextBlock(block)
    \/ \E block \in Blocks : ThrowLimit(block)
    \/ \E block \in Blocks : BreakLimit(block)
    \/ \E block \in Blocks : ReturnFiltered(block)

Spec == Init /\ [][Next]_vars

\* ------------------------------------------- ReadBufferFromFile, its life
\* An object yet to be constructed, on either build; the stream is left as
\* constructed and takes no step.
InitFile ==
    /\ file \in {NoFile(apple) : apple \in BOOLEAN}
    /\ columns_names = <<>>
    /\ limit_hint = 0
    /\ max_rows = 0
    /\ max_bytes = 0
    /\ overflow_mode = "THROW"
    /\ data = EmptyVariants
    /\ pc = "idle"
    /\ source_done = FALSE
    /\ input = <<>>
    /\ output = <<>>
    /\ pull_start = EmptyVariants

OpenByName(fd) ==
    /\ file.pc = "none"
    /\ file' = OpenedByName(file, fd)
    /\ UNCHANGED stream

OpenByNameFails(errno) ==
    /\ file.pc = "none"
    /\ file' = OpenFailed(file, errno)
    /\ UNCHANGED stream

\* o_direct: flags != -1 and flags has O_DIRECT
OpenByNameNoCacheFails(fd, o_direct) ==
    /\ file.pc = "none"
    /\ file.apple
    /\ o_direct
    /\ file' = NoCacheFailed(file, fd)
    /\ UNCHANGED stream

OpenByDescriptor(fd, isOpen) ==
    /\ file.pc = "none"
    /\ file' = FromDescriptor(file, fd, isOpen)
    /\ UNCHANGED stream

CloseReturns ==
    /\ file.pc = "alive"
    /\ file.closes < MaxCloses
    /\ \E outcome \in SysClose(file.os, file.fd) :
          /\ outcome.ok
          /\ file' = close(file, outcome)
    /\ UNCHANGED stream

CloseThrows ==
    /\ file.pc = "alive"
    /\ file.closes < MaxCloses
    /\ \E outcome \in SysClose(file.os, file.fd) :
          /\ ~outcome.ok
          /\ file' = close(file, outcome)
    /\ UNCHANGED stream

Destroy ==
    /\ file.pc = "alive"
    /\ \E outcome \in SysClose(file.os, file.fd) :
          file' = Destructor(file, outcome)
    /\ UNCHANGED stream

\* Another open in the process is given the number the object's descriptor
\* had, while the object, still holding the number, is alive.
NumberReused ==
    /\ file.pc = "alive"
    /\ file.os = "released"
    /\ file' = [file EXCEPT !.os = "reused"]
    /\ UNCHANGED stream

NextFile ==
    \/ \E fd \in Fds : OpenByName(fd)
    \/ \E errno \in Errnos : OpenByNameFails(errno)
    \/ \E fd \in Fds, o_direct \in BOOLEAN : OpenByNameNoCacheFails(fd, o_direct)
    \/ \E fd \in Fds \cup {-1}, isOpen \in BOOLEAN : OpenByDescriptor(fd, isOpen)
    \/ CloseReturns
    \/ CloseThrows
    \/ Destroy
    \/ NumberReused

SpecFile == InitFile /\ [][NextFile]_vars

\* ------------------------------------------------ a call that keeps running
\* One iteration of the loop of a call of readImpl that is under way.
ReadImplStep ==
    \/ StopAtHint
    \/ SourceEnds
    \/ SourceThrows
    \/ \E block \in Blocks : ReturnUnfiltered(block)
    \/ \E block \in Blocks : NextBlock(block)
    \/ \E block \in Blocks : ThrowLimit(block)
    \/ \E block \in Blocks : BreakLimit(block)
    \/ \E block \in Blocks : ReturnFiltered(block)

\* A stream whose key is every column or the first one, with a hint of one
\* row or none and a limit of one row or none.
InitFair ==
    /\ columns_names \in {<<>>, <<"a">>}
    /\ limit_hint \in {0, 1}
    /\ max_rows \in {0, 1}
    /\ max_bytes = 0
    /\ overflow_mode \in OverflowModes
    /\ data = EmptyVariants
    /\ pc = "idle"
    /\ source_done = FALSE
    /\ input = <<>>
    /\ output = <<>>
    /\ pull_start = EmptyVariants
    /\ file = NoFile(FALSE)

\* readImpl is a synchronous call: the calling thread runs the loop until it
\* returns or throws, and each read of the upstream comes back with a block,
\* the end of the data or an error. When the next call is made is up to the
\* caller, so Pull is under no fairness.
FairSpec == InitFair /\ [][Next]_vars /\ WF_vars(ReadImplStep)

\* ------------------------------------------ the stream under any key order
\* Every list of distinct column names of the blocks, in either order.
KeyOrders == {<<>>, <<"a">>, <<"b">>, <<"a", "b">>, <<"b", "a">>}

\* A stream constructed with any of these key lists, and with a hint and a
\* row limit either absent or present.
InitKeys ==
    /\ columns_names \in KeyOrders
    /\ limit_hint \in {0, MaxLimit}
    /\ max_rows \in {0, MaxLimit}
    /\ max_bytes = 0
    /\ overflow_mode \in OverflowModes
    /\ data = EmptyVariants
    /\ pc = "idle"
    /\ source_done = FALSE
    /\ input = <<>>
    /\ output = <<>>
    /\ pull_start = EmptyVariants
    /\ file = NoFile(FALSE)

SpecKeys == InitKeys /\ [][Next]_vars

\* ======================================================= history, in rows
RECURSIVE ConcatRows(_)
ConcatRows(blocks) ==
    IF blocks = <<>> THEN <<>>
    ELSE RowsOf(Head(blocks)) \o ConcatRows(Tail(blocks))

\* The blocks among a sequence of outcomes, in order.
RECURSIVE BlocksIn(_)
BlocksIn(outcomes) ==
    IF outcomes = <<>> THEN <<>>
    ELSE (IF Head(outcomes).kind = "block" THEN <<Head(outcomes).block>> ELSE <<>>)
             \o BlocksIn(Tail(outcomes))

\* The blocks returned compacted by the filter, in order.
RECURSIVE FilteredIn(_)
FilteredIn(outcomes) ==
    IF outcomes = <<>> THEN <<>>
    ELSE (IF Head(outcomes).via = "filtered" THEN <<Head(outcomes).block>> ELSE <<>>)
             \o FilteredIn(Tail(outcomes))

\* The key of every row of the given blocks, each built from its own block's
\* key columns.
RECURSIVE ConcatKeys(_)
ConcatKeys(blocks) ==
    IF blocks = <<>> THEN <<>>
    ELSE LET cols == getKeyColumns(columns_names, Head(blocks))
         IN  [i \in 1..Rows(Head(blocks)) |-> getKey(cols, i)] \o ConcatKeys(Tail(blocks))

InputRows == ConcatRows(input)
OutputRows == ConcatRows(BlocksIn(output))

\* Position of a column of the upstream's blocks.
ColumnIndex(name) == IF name = "a" THEN 1 ELSE 2

\* A row restricted to the configured key columns (all columns if none is
\* configured), constant or not.
OnKeyColumns(row) ==
    IF columns_names = <<>> THEN row
    ELSE [k \in 1..Len(columns_names) |-> row[ColumnIndex(columns_names[k])]]

NoTwoEqual(seq) == \A i, j \in 1..Len(seq) : i # j => seq[i] # seq[j]

RECURSIVE IsSubsequenceFrom(_, _, _, _)
IsSubsequenceFrom(s, t, i, j) ==
    IF i > Len(s) THEN TRUE
    ELSE IF j > Len(t) THEN FALSE
    ELSE IF s[i] = t[j] THEN IsSubsequenceFrom(s, t, i + 1, j + 1)
    ELSE IsSubsequenceFrom(s, t, i, j + 1)

IsSubsequence(s, t) == IsSubsequenceFrom(s, t, 1, 1)

\* No candidate key column of the block is constant.
AllKeysPlain(block) ==
    Len(getKeyColumns(columns_names, block)) =
        (IF columns_names = <<>> THEN Len(block.columns) ELSE Len(columns_names))

\* ================================================================== claims

\* C1 as stated: no two rows of the returned blocks, concatenated, have equal
\* values on every configured key column.
C1_Uniqueness_AsStated ==
    NoTwoEqual([i \in 1..Len(OutputRows) |-> OnKeyColumns(OutputRows[i])])

\* C1 (amended): no two rows of the blocks returned compacted by the filter
\* have equal keys, the key of a row being its values on the non-constant key
\* columns of its block; blocks returned unfiltered are not covered.
\* In particular, when no candidate key column of any upstream block is
\* constant, the statement holds as it stands.
C1_Uniqueness ==
    /\ NoTwoEqual(ConcatKeys(FilteredIn(output)))
    /\ (\A k \in 1..Len(input) : AllKeysPlain(input[k])) => C1_Uniqueness_AsStated

C1_Witness ==
    /\ Len(FilteredIn(output)) = 2
    /\ Len(ConcatKeys(FilteredIn(output))) >= 3
    /\ Len(InputRows) > Len(OutputRows)

\* C2: the rows of the returned blocks, in the order returned, are a
\* subsequence of the rows of the upstream blocks in the order read.
C2_OrderPreserved == IsSubsequence(OutputRows, InputRows)

C2_Witness ==
    /\ Len(BlocksIn(output)) = 2
    /\ Len(OutputRows) = 3
    /\ Len(InputRows) = 4
    /\ OutputRows[1] # OutputRows[2]

\* The rows that are the first of their key (on the configured key columns).
RECURSIVE FirstOccurrencesFrom(_, _)
FirstOccurrencesFrom(rows, i) ==
    IF i > Len(rows) THEN <<>>
    ELSE (IF \A j \in 1..(i - 1) : OnKeyColumns(rows[j]) # OnKeyColumns(rows[i])
          THEN <<rows[i]>> ELSE <<>>)
             \o FirstOccurrencesFrom(rows, i + 1)

FirstOccurrences(rows) == FirstOccurrencesFrom(rows, 1)

Unlimited == limit_hint = 0 /\ max_rows = 0 /\ max_bytes = 0

Last(seq) == seq[Len(seq)]
Front(seq) == SubSeq(seq, 1, Len(seq) - 1)

\* C3: without limits and hint, and with no constant key column in any
\* upstream block, once the upstream is exhausted the returned rows are
\* exactly the input rows that are the first of their key, in input order.
C3_FirstOccurrence ==
    (Unlimited /\ source_done /\ \A k \in 1..Len(input) : AllKeysPlain(input[k]))
        => OutputRows = FirstOccurrences(InputRows)

C3_Witness ==
    /\ Unlimited /\ source_done
    /\ \A k \in 1..Len(input) : AllKeysPlain(input[k])
    /\ Len(input) = 2 /\ Len(InputRows) = 4
    /\ InputRows[1] = InputRows[2]
    /\ InputRows[3] = InputRows[1]
    /\ OutputRows = <<InputRows[1], InputRows[4]>>

\* The last step returned a block unfiltered.
ReturnedUnfiltered == pc = "idle" /\ output # <<>> /\ Last(output).via = "unfiltered"

\* C4 as stated: a pull that returns a block with no key column returns it
\* unmodified, and the set (method variant, keys, row and byte count) is what
\* it was before the pull.
C4_Passthrough_AsStated ==
    ReturnedUnfiltered => (Last(output).block = Last(input) /\ data = pull_start)

\* C4 (amended): the turn that returns a block with no key column returns it
\* unmodified and leaves the set as it is; over the whole pull the stored
\* keys, the row count and the byte count are unchanged, while the method
\* variant may have been chosen on an earlier block of the same pull.
C4_Passthrough ==
    [][(pc' = "idle" /\ output' # output /\ Last(output').via = "unfiltered")
        => /\ Len(input') = Len(input) + 1
           /\ Last(output').block = Last(input')
           /\ data' = data
           /\ data'.keys = pull_start.keys
           /\ getTotalRowCount(data') = getTotalRowCount(pull_start)
           /\ getTotalByteCount(data') = getTotalByteCount(pull_start)]_vars

C4_Witness ==
    /\ ReturnedUnfiltered
    /\ Rows(Last(output).block) = 2
    /\ data.keys # {}
    /\ Len(output) = 2

\* C5: in THROW mode with max_rows = K > 0, as soon as the set holds more than
\* K keys the pull that read the offending block has thrown
\* SET_SIZE_LIMIT_EXCEEDED with the row count, row limit, byte count and byte
\* limit, it returned no block, and nothing of the offending block is among
\* the returned rows.
C5_ThrowLimit ==
    (overflow_mode = "THROW" /\ max_rows > 0 /\ Cardinality(data.keys) > max_rows)
        => /\ pc = "failed"
           /\ Last(output).kind = "exception"
           /\ Last(output).block = EmptyBlock
           /\ Last(output).error = [code |-> "SET_SIZE_LIMIT_EXCEEDED",
                                    rows |-> Cardinality(data.keys),
                                    row_limit |-> max_rows,
                                    bytes |-> data.bytes,
                                    byte_limit |-> max_bytes]
           /\ Last(output).consumed = Len(input)
           /\ IsSubsequence(OutputRows, ConcatRows(Front(input)))
           /\ Len(ConcatRows(FilteredIn(output))) <= max_rows

C5_Witness ==
    /\ overflow_mode = "THROW" /\ max_rows = 2 /\ max_bytes = 0
    /\ Cardinality(data.keys) = 3
    /\ Len(FilteredIn(output)) = 1
    /\ Len(OutputRows) = 2
    /\ pc = "failed"

\* The blocks the same operator returns over the given upstream blocks when
\* max_rows = max_bytes = 0 (hint and key columns as configured).
RECURSIVE UnlimitedBlocks(_, _)
UnlimitedBlocks(variants, blocks) ==
    IF blocks = <<>> \/ (limit_hint # 0 /\ Cardinality(variants.keys) >= limit_hint)
    THEN <<>>
    ELSE LET turn == Iteration(columns_names, 0, 0, overflow_mode, variants, Head(blocks))
         IN  (IF turn.kind \in {"unfiltered", "filtered"} THEN <<turn.block>> ELSE <<>>)
                 \o UnlimitedBlocks(turn.variants, Tail(blocks))

\* k is the first pull that ended at case OverflowMode::BREAK.
FirstBreak(k) ==
    /\ k \in 1..Len(output)
    /\ output[k].via = "break"
    /\ \A j \in 1..(k - 1) : output[j].via # "break"

BreakModeOverLimit ==
    overflow_mode = "BREAK" /\ max_rows > 0 /\ Cardinality(data.keys) > max_rows

\* C6 as stated: in BREAK mode with max_rows = K > 0, once the set holds more
\* than K keys, the blocks returned before the limit was hit are those the
\* operator without limits returns up to there, they are duplicate-free on
\* the key columns and hold at most K rows, the violating pull signalled
\* end-of-data, and no error was raised.
C6_BreakLimit_AsStated ==
    BreakModeOverLimit
        => /\ \E k \in 1..Len(output) :
                /\ FirstBreak(k)
                /\ output[k].kind = "eof"
                /\ LET before == BlocksIn(SubSeq(output, 1, k - 1))
                   IN  /\ before = UnlimitedBlocks(EmptyVariants,
                                       SubSeq(input, 1, output[k].consumed - 1))
                       /\ NoTwoEqual([i \in 1..Len(ConcatRows(before)) |->
                                          OnKeyColumns(ConcatRows(before)[i])])
                       /\ Len(ConcatRows(before)) <= max_rows
           /\ \A j \in 1..Len(output) : output[j].kind # "exception"

\* C6 (amended): as stated, with "duplicate-free" and "at most K rows" said of
\* the blocks returned compacted by the filter (duplicate-free by key), and
\* "no error" said of the operator's own errors: an exception of the upstream
\* still propagates.
C6_BreakLimit ==
    BreakModeOverLimit
        => /\ \E k \in 1..Len(output) :
                /\ FirstBreak(k)
                /\ output[k].kind = "eof"
                /\ LET before == SubSeq(output, 1, k - 1)
                   IN  /\ BlocksIn(before) = UnlimitedBlocks(EmptyVariants,
                                       SubSeq(input, 1, output[k].consumed - 1))
                       /\ NoTwoEqual(ConcatKeys(FilteredIn(before)))
                       /\ Len(ConcatRows(FilteredIn(before))) <= max_rows
           /\ \A j \in 1..Len(output) :
                output[j].kind = "exception" => output[j].via = "upstream"

C6_Witness ==
    /\ BreakModeOverLimit /\ max_rows = 2 /\ max_bytes = 0
    /\ FirstBreak(2)
    /\ Len(ConcatRows(FilteredIn(output))) = 2
    /\ Len(input) = 2

\* C7: in BREAK mode, after a pull ended at the limit no later pull returns a
\* block, whatever the upstream still delivers.
C7_BreakIsTerminal ==
    \A k, j \in 1..Len(output) :
        (k < j /\ output[k].via = "break") => output[j].kind # "block"

\* The hint is met by the keys stored so far.
HintMet == limit_hint > 0 /\ Cardinality(data.keys) >= limit_hint

\* C8: once the distinct-row count has reached the hint, it stays reached, no
\* upstream block is read any more, and every pull that ends signals
\* end-of-data.
C8_HintStops ==
    [][HintMet => /\ HintMet'
                  /\ input' = input
                  /\ source_done' = source_done
                  /\ data' = data
                  /\ pc' # "failed"
                  /\ (output' # output =>
                         /\ Len(output') = Len(output) + 1
                         /\ Last(output').kind = "eof")]_vars

C8_Witness ==
    /\ HintMet
    /\ ~source_done /\ Len(input) < MaxBlocks
    /\ Len(output) = 3
    /\ output[2].via = "hint" /\ output[3].via = "hint"

\* C9: a turn on a block that has a key column and brings no new key (all its
\* keys are stored already, or it has no row) returns nothing and the loop
\* goes on; and every block returned compacted by the filter has a row.
C9_NoEmptyResult ==
    [][/\ (/\ input' # input
           /\ getKeyColumns(columns_names, Last(input')) # <<>>
           /\ \A i \in 1..Rows(Last(input')) :
                  getKey(getKeyColumns(columns_names, Last(input')), i) \in data.keys)
          => (output' = output /\ pc' = "loop")
       /\ \A k \in 1..Len(output') :
              output'[k].via = "filtered" => Rows(output'[k].block) >= 1]_vars

C9_Witness ==
    /\ pc = "loop"
    /\ Len(input) = 2
    /\ Rows(input[2]) = 2
    /\ Len(output) = 1
    /\ output[1].consumed = 1
    /\ getKeyColumns(columns_names, input[2]) # <<>>


\* The upstream blocks read so far that have a key column, by position.
KeyedReads == {k \in 1..Len(input) : getKeyColumns(columns_names, input[k]) # <<>>}

FirstKeyedRead == CHOOSE k \in KeyedReads : \A j \in KeyedReads : k <= j

\* C11: the method variant is uninitialized until the first block with a key
\* column is processed, is chosen from that block's key columns, and is never
\* changed or chosen again, whatever key columns later blocks have.
C11_MethodChosenOnce ==
    IF KeyedReads = {}
    THEN data.type = "EMPTY"
    ELSE data.type = chooseMethod(getKeyColumns(columns_names, input[FirstKeyedRead]))

C11_Witness ==
    /\ Len(input) = 2
    /\ Len(getKeyColumns(columns_names, input[1])) = 1
    /\ Len(getKeyColumns(columns_names, input[2])) = 2
    /\ data.type = "key64"


\* The number of upstream blocks read before pull k started.
ConsumedBefore(k) == IF k = 1 THEN 0 ELSE output[k - 1].consumed

\* C12: a pull that ends because the upstream raised propagates that error, a
\* pull that ends because the upstream is exhausted signals end of data, and
\* in both cases the stored keys, the row count and the byte count are what
\* they were when the pull started, however many blocks the pull skipped.
C12_UpstreamOutcomeForwarded ==
    [][(output' # output /\ Last(output').via \in {"source", "upstream"})
        => /\ data'.keys = pull_start.keys
           /\ getTotalRowCount(data') = getTotalRowCount(pull_start)
           /\ getTotalByteCount(data') = getTotalByteCount(pull_start)
           /\ input' = input
           /\ Last(output').via = "upstream"
                => /\ Last(output').kind = "exception"
                   /\ Last(output').error.code = "UPSTREAM"
                   /\ pc' = "failed"
           /\ Last(output').via = "source"
                => /\ Last(output').kind = "eof"
                   /\ Last(output').error = NoError
                   /\ pc' = "idle"]_vars

C12_Witness ==
    /\ Len(output) = 2
    /\ output[1].via = "filtered"
    /\ output[2].via \in {"source", "upstream"}
    /\ output[2].consumed = ConsumedBefore(2) + 1
    /\ Rows(input[2]) = 2


\* The limits as the claim words them, on the totals of the whole stream.
WithinLimits(variants) ==
    /\ max_rows = 0 \/ Cardinality(variants.keys) <= max_rows
    /\ max_bytes = 0 \/ variants.bytes <= max_bytes

\* C13: checkLimits is true exactly when the cumulative row count is within
\* max_rows (or max_rows is 0) and the cumulative byte count is within
\* max_bytes (or max_bytes is 0); a block that brought new keys ends its pull
\* on the overflow path exactly when the totals after it are outside them.
C13_LimitsOnTotals ==
    [][/\ checkLimits(data, max_rows, max_bytes) = WithinLimits(data)
       /\ Cardinality(data'.keys) > Cardinality(data.keys)
            => /\ output' # output
               /\ Last(output').via \in {"throw", "break"} <=> ~WithinLimits(data')
               /\ Last(output').via = "filtered" <=> WithinLimits(data')]_vars

C13_Witness ==
    /\ max_rows = 2
    /\ max_bytes = 0
    /\ Len(output) = 2
    /\ output[1].via = "filtered"
    /\ Rows(output[1].block) = 2
    /\ output[2].via \in {"throw", "break"}
    /\ Cardinality(data.keys) = 3


\* The keys of all rows of a block, on its key columns.
BlockKeys(columns, rows) == {getKey(columns, i) : i \in 1..rows}

\* What the claim says of one insertion pass over a block, from the state
\* the pass starts in.
InsertionPassAsClaimed(variants, block) ==
    LET columns == getKeyColumns(columns_names, block)
        rows == Rows(block)
        built == buildFilter(variants, columns, rows)
    IN  columns # <<>> =>
          /\ DOMAIN built.filter = 1..rows
          /\ \A i \in 1..rows :
                built.filter[i] <=>
                    /\ getKey(columns, i) \notin variants.keys
                    /\ \A j \in 1..(i - 1) : getKey(columns, j) # getKey(columns, i)
          /\ built.variants.keys = variants.keys \cup BlockKeys(columns, rows)
          /\ Cardinality({i \in 1..rows : built.filter[i]})
                = getTotalRowCount(built.variants) - getTotalRowCount(variants)

\* C14: in every state in which readImpl is about to read, and for every block
\* the upstream can deliver, the insertion pass marks row i exactly when its
\* key was neither stored before the pass nor carried by an earlier row of the
\* block, leaves the stored keys equal to the previous ones plus the keys of
\* all rows, and marks as many rows as the row count grows by.
C14_InsertionPass ==
    pc = "loop" => \A block \in Blocks : InsertionPassAsClaimed(data, block)

C14_Witness ==
    /\ Len(output) = 2
    /\ output[2].via = "filtered"
    /\ Rows(input[2]) = 2
    /\ Rows(output[2].block) = 1
    /\ getTotalRowCount(pull_start) = 1
    /\ getTotalRowCount(data) = 2
    /\ LET columns == getKeyColumns(columns_names, input[2])
       IN  getKey(columns, 1) \in pull_start.keys


\* C15: whatever a pull does and however it ends, the stored keys after a step
\* include the stored keys before it, and neither the row count nor the byte
\* count decreases.
C15_StateOnlyGrows ==
    [][/\ data.keys \subseteq data'.keys
       /\ getTotalRowCount(data) <= getTotalRowCount(data')
       /\ getTotalByteCount(data) <= getTotalByteCount(data')]_vars

C15_Witness ==
    /\ Len(output) = 3
    /\ output[1].via = "filtered"
    /\ output[2].via = "break"
    /\ output[3].via = "source"
    /\ getTotalRowCount(data) = 3
    /\ getTotalByteCount(data) = 6


\* The columns the key is to be taken from: all columns of the block by
\* position when no names are configured, else the named ones as configured.
Candidates(block) ==
    IF columns_names = <<>>
    THEN block.columns
    ELSE [k \in 1..Len(columns_names) |->
            CHOOSE column \in {block.columns[p] : p \in 1..Len(block.columns)} :
                column.name = columns_names[k]]

NotConst(column) == ~column.isConst

\* C16: for every block the upstream can deliver, getKeyColumns is the
\* candidate columns without the constant ones, in the candidates' order, and
\* it is empty exactly when every candidate is constant.
C16_KeyColumns ==
    pc = "loop" =>
        \A block \in Blocks :
            LET column_ptrs == getKeyColumns(columns_names, block)
                candidates == Candidates(block)
            IN  /\ column_ptrs = SelectSeq(candidates, NotConst)
                /\ column_ptrs = <<>>
                     <=> \A k \in 1..Len(candidates) : candidates[k].isConst

C16_Witness ==
    /\ columns_names = <<"b", "a">>
    /\ Len(input) = 2
    /\ Rows(input[1]) = 2
    /\ input[1].columns[1].isConst
    /\ ~input[1].columns[2].isConst
    /\ output[1].via = "filtered"
    /\ ~input[2].columns[1].isConst
    /\ ~input[2].columns[2].isConst
    /\ getKeyColumns(columns_names, input[2])
         = <<input[2].columns[2], input[2].columns[1]>>
    /\ input[2].columns[1].data # input[2].columns[2].data


\* The distinct keys carried by the first n upstream blocks read.
KeysUpTo(n) ==
    UNION {BlockKeys(getKeyColumns(columns_names, input[k]), Rows(input[k])) :
             k \in {j \in 1..n : getKeyColumns(columns_names, input[j]) # <<>>}}

\* C17: with a hint configured, no upstream block is read once the blocks
\* read before it carry at least limit_hint distinct keys, and a pull ended
\* by the hint found the hint met by the blocks of earlier pulls and read
\* nothing itself.
C17_NoReadPastHint ==
    limit_hint > 0 =>
        /\ \A n \in 1..Len(input) : Cardinality(KeysUpTo(n - 1)) < limit_hint
        /\ \A k \in 1..Len(output) :
              output[k].via = "hint" =>
                  /\ output[k].kind = "eof"
                  /\ output[k].consumed = ConsumedBefore(k)
                  /\ Cardinality(KeysUpTo(ConsumedBefore(k))) >= limit_hint
        /\ pc = "idle" /\ output # <<>> /\ Last(output).via = "hint"
              => data = pull_start

C17_Witness ==
    /\ limit_hint = 2
    /\ Len(input) = 1
    /\ ~source_done
    /\ Len(output) = 2
    /\ output[1].via = "filtered"
    /\ output[2].via = "hint"
    /\ getTotalRowCount(data) = 2


\* The pulls so far that ended on a limit violation.
LimitViolations == {k \in 1..Len(output) : output[k].via \in {"throw", "break"}}

\* The rows returned so far in filtered blocks.
EmittedRows == Len(ConcatRows(FilteredIn(output)))

\* C18: after a pull ended by a limit violation the set holds every key of the
\* offending block, which was the block read last in that pull and of which
\* nothing was returned; so the rows returned in filtered blocks are never
\* more than the stored keys, are as many while no limit was violated, and
\* are fewer once one was.
C18_NoRollback ==
    /\ \A k \in LimitViolations :
          LET offending == input[output[k].consumed]
          IN  /\ output[k].consumed > ConsumedBefore(k)
              /\ output[k].block = EmptyBlock
              /\ BlockKeys(getKeyColumns(columns_names, offending), Rows(offending))
                    \subseteq data.keys
              /\ Cardinality(KeysUpTo(output[k].consumed))
                    > Cardinality(KeysUpTo(output[k].consumed - 1))
    /\ EmittedRows <= getTotalRowCount(data)
    /\ LimitViolations = {} => EmittedRows = getTotalRowCount(data)
    /\ LimitViolations # {} => EmittedRows < getTotalRowCount(data)
    /\ output # <<>> /\ Last(output).via \in {"throw", "break"}
          => /\ max_rows # 0 /\ max_bytes = 0 => getTotalRowCount(data) > max_rows
             /\ data.keys = KeysUpTo(Len(input))

C18_Witness ==
    /\ overflow_mode = "BREAK"
    /\ max_rows = 1
    /\ Len(output) = 2
    /\ output[1].via = "filtered"
    /\ output[2].via = "break"
    /\ EmittedRows = 1
    /\ getTotalRowCount(data) = 3


\* C19: a call of readImpl that is under way ends, with one outcome that is a
\* block, the end of the data or an error; until then each iteration reads
\* one upstream block, and the loop goes round again only on a block that
\* added no key.
C19_PullTerminates ==
    /\ (pc = "loop") ~> (pc # "loop")
    /\ [][pc = "loop" =>
            \/ /\ pc' = "loop"
               /\ Len(input') = Len(input) + 1
               /\ data'.keys = data.keys
               /\ output' = output
            \/ /\ pc' \in {"idle", "failed"}
               /\ Len(output') = Len(output) + 1
               /\ Front(output') = output
               /\ Last(output').kind \in {"block", "eof", "exception"}
               /\ pc' = "failed" <=> Last(output').kind = "exception"
               /\ Len(input') \in {Len(input), Len(input) + 1}
               /\ Last(output').consumed = Len(input')]_vars

C19_Witness ==
    /\ Len(output) = 1
    /\ output[1].kind = "block"
    /\ output[1].consumed = 2
    /\ pc = "idle"


\* The ::close calls so far that were issued on a number whose descriptor had
\* been released before: they close nothing, or another file.
StaleCloses(f) ==
    {i \in 1..Len(f.calls) :
        f.calls[i].arg >= 0 /\ f.calls[i].os_before \in {"released", "reused"}}

\* C20: over any sequence of close() calls followed by destruction the
\* descriptor is closed at most once, no ::close being issued on its number
\* once it was released: a close() whose ::close returned 0 leaves fd = -1,
\* a close() whose ::close failed throws CANNOT_CLOSE_FILE and leaves fd as
\* it was; and a by-name constructor that throws does so with
\* FILE_DOESNT_EXIST when the file is not there and with CANNOT_OPEN_FILE
\* otherwise, and leaves no descriptor open.
C20_ClosedAtMostOnce ==
    /\ StaleCloses(file) = {}
    /\ \A i \in 1..Len(file.calls) :
          file.calls[i].by = "close" =>
              /\ file.calls[i].ok
                   => file.calls[i].fd_after = -1 /\ file.calls[i].threw = "NONE"
              /\ ~file.calls[i].ok
                   => /\ file.calls[i].fd_after = file.calls[i].arg
                      /\ file.calls[i].threw = "CANNOT_CLOSE_FILE"
    /\ file.pc = "ctor_failed" =>
          /\ file.error = IF file.cause = "ENOENT"
                          THEN "FILE_DOESNT_EXIST" ELSE "CANNOT_OPEN_FILE"
          /\ file.os # "open"

====
